---- MODULE Spec2Model ----
(***************************************************************************)
(* Streaming diffusion timeline engine of the dashboard: the orchestrator  *)
(* hook (useDiffusionOrchestrator), the per-image timeline store           *)
(* (usePerImageTimeline), the image switcher (useImageSwitch) and the      *)
(* page-level handlers of the Dashboard component.                         *)
(*                                                                         *)
(* React state is modelled as committed immediately: a handler invoked by  *)
(* a user event closes over the state of the moment it is invoked, and a   *)
(* functional updater (setFrames(prev => ...)) sees the state of the       *)
(* moment it runs.  Every `await` of a network request splits a handler    *)
(* into separate actions, with the server's processing of the request as   *)
(* a step of its own in between.                                           *)
(*                                                                         *)
(* useDiffusionStream (the owner of wsRef) and deleteFramesForImage are    *)
(* not part of the sources at hand; they are modelled from the written     *)
(* specification (sections 4.1 and 4.2).                                   *)
(***************************************************************************)
EXTENDS Integers, Sequences, FiniteSets, TLC

\* ---------------------------------------------------------------- bounds
MaxT == 2       \* step messages carry globalT in 0 .. MaxT-1
MaxCalls == 2   \* diffuse() and switchToImage() invocations in all
MaxMsg == 2     \* step messages delivered in all

\* ------------------------------------------------------------- constants
Keys == {"A", "B"}
NoKey == "null"     \* currentImageKey === null
TmpUrl == "tmp"     \* data URL of a local preview that has no key yet
NoT == 0 - 1        \* scrubT === null
NoImg == 0          \* diffusedImage === null, or a frame without image

ErrNone == ""
ErrUpload == "Please upload an image first."
ErrWs == "WebSocket error"

Frame(t, i) == [globalT |-> t, image |-> i]

TRange == 0 .. (MaxT - 1)
Imgs == {1, 2}          \* two distinguishable image payloads

\* ------------------------------------------------------- pure functions

\* Array.prototype.findIndex on globalT; 0 stands for JavaScript's -1.
RECURSIVE FindFrom(_, _, _)
FindFrom(arr, t, i) ==
    IF i > Len(arr) THEN 0
    ELSE IF arr[i].globalT = t THEN i
    ELSE FindFrom(arr, t, i + 1)

FindIndex(arr, t) == FindFrom(arr, t, 1)

\* Stable insertion of one element into an already sorted prefix.
RECURSIVE InsertSorted(_, _)
InsertSorted(sorted, f) ==
    IF sorted = << >> THEN << f >>
    ELSE IF sorted[Len(sorted)].globalT - f.globalT > 0
         THEN Append(InsertSorted(SubSeq(sorted, 1, Len(sorted) - 1), f),
                     sorted[Len(sorted)])
         ELSE Append(sorted, f)

\* arr.sort((a, b) => a.globalT - b.globalT): a stable sort.
RECURSIVE SortByGlobalT(_)
SortByGlobalT(arr) ==
    IF arr = << >> THEN << >>
    ELSE InsertSorted(SortByGlobalT(SubSeq(arr, 1, Len(arr) - 1)), arr[Len(arr)])

\* Mutant of AppendSorted: the new frame is appended without the sort.
AppendUnsorted(prev, frame) == Append(prev, frame)

\* [...prev, frame].sort(...)
AppendSorted(prev, frame) == SortByGlobalT(Append(prev, frame))

\* Mutant of ReplaceAt: the stored frame wins over the arriving one.
ReplaceKeepOld(prev, idx, frame) == prev

\* prev.map((p, i) => (i === idx ? frame : p))
ReplaceAt(prev, idx, frame) ==
    [i \in 1 .. Len(prev) |-> IF i = idx THEN frame ELSE prev[i]]

\* The updater handed to setFrames by onFrame.
InsertFrame(prev, frame) ==
    LET idx == FindIndex(prev, frame.globalT) IN
    IF idx >= 1 THEN ReplaceAt(prev, idx, frame)
    ELSE AppendSorted(prev, frame)

\* Mutant of computeNextOffsetFrom: the number of frames.
computeNextOffsetLen(arr) == Len(arr)

\* computeNextOffsetFrom
computeNextOffsetFrom(arr) ==
    IF Len(arr) # 0 THEN arr[Len(arr)].globalT + 1 ELSE 0

\* Mutant of canDiffuse: the validation is skipped.
canDiffuseAlways(url) == TRUE

\* canDiffuse = Boolean(uploadedImageDataUrl)
canDiffuse(url) == url # NoKey

\* Mutant of ResetFrames: the reset keeps the previous timeline.
ResetFramesKeep(prev) == prev

\* setFrames([]) of resetTimelineForActiveImage
ResetFrames(prev) == << >>

\* The scrub preview effect of the Dashboard, run after every commit that
\* changed scrubT or frames: the result is the displayed image.
ScrubEffect(fr, sc, img) ==
    IF sc = NoT THEN img
    ELSE LET idx == FindIndex(fr, sc) IN
         IF idx >= 1 /\ fr[idx].image # NoImg THEN fr[idx].image ELSE img

\* JavaScript values of a metric field: a finite number (in thousandths),
\* a number that is not finite (NaN, Infinity), undefined, and null.
Num(n) == [kind |-> "number", v |-> n]
NotFinite == [kind |-> "NaN", v |-> 0]
Undefined == [kind |-> "undefined", v |-> 0]
Null == [kind |-> "null", v |-> 0]

\* typeof x === "number" && isFinite(x)
IsFiniteNumber(x) == x.kind = "number"

\* The number 1 of `1 - c`, in thousandths.
One == 1000

\* The callback handed to frames.map in useChartPoints.
ChartPoint(f) ==
    LET c == f.metrics.Cosine
        b == f.betas
    IN  [x |-> f.globalT,
         residual |-> IF IsFiniteNumber(c) THEN Num(One - c.v) ELSE Null,
         beta |-> IF IsFiniteNumber(b) THEN b ELSE Null]

\* The predicate handed to .filter in useChartPoints.
ChartKeep(pt) == pt.residual # Null \/ pt.beta # Null

\* useChartPoints(frames): frames.map(...).filter(...)
useChartPoints(fr) ==
    SelectSeq([j \in 1 .. Len(fr) |-> ChartPoint(fr[j])], ChartKeep)

\* ------------------------------------------------------------------ state
VARIABLES
    currentImageKey,        \* useState(null) of the Dashboard
    uploadedImageDataUrl,   \* useState(null) of the Dashboard
    frames,                 \* usePerImageTimeline: the in-memory timeline
    scrubT,                 \* usePerImageTimeline
    tOffsetRef,             \* usePerImageTimeline: tOffsetRef.current
    diffusedImage,          \* orchestrator: displayed image
    isStreaming,            \* orchestrator: running flag
    currentStep,            \* orchestrator: progress counter
    streamError,            \* orchestrator: error text
    followStream,           \* orchestrator: follow mode
    wsRef,                  \* wsRef.current: 0 (null) or a connection id
    ws,                     \* the connections made so far, by id
    nSock,                  \* number of connections made so far
    dcall,                  \* diffuse() invocations, by id
    nDiff,                  \* number of diffuse() invocations so far
    sw,                     \* switchToImage() invocations, by id
    nSw,                    \* number of switchToImage() invocations so far
    store,                  \* server side: persisted timeline per image id
    net,                    \* fire-and-forget save requests in flight
    nMsg,                   \* number of step messages delivered so far
    up,                     \* the handleUpload() invocation: its position
    diffusion,              \* orchestrator: the run configuration
    controls,               \* Controls: editingSteps and tempSteps
    away,                   \* history: the session at the first switch away
    uploadedImage,          \* useState(null) of the Dashboard: the preview
    del,                    \* the confirmDelete() invocation: its position
    ev                      \* the step taken last: [op, id, arg]

vars == << currentImageKey, uploadedImageDataUrl, frames, scrubT, tOffsetRef,
           diffusedImage, isStreaming, currentStep, streamError, followStream,
           wsRef, ws, nSock, dcall, nDiff, sw, nSw, store, net, nMsg, up,
           diffusion, controls, away, uploadedImage, del, ev >>

session == << currentImageKey, uploadedImageDataUrl, uploadedImage, frames,
              scrubT,
              tOffsetRef, diffusedImage, isStreaming, currentStep,
              followStream >>

Ev(op, id, arg) == [op |-> op, id |-> id, arg |-> arg]

\* The steps the properties tell apart are the callbacks of a run: onFrame
\* (with the connection, the frame, and the position and image of the stored
\* frame it replaces), onDone and onError; cancel() (with the handle and
\* whether it acted); the validation failure of diffuse(); the start of a
\* slow run (with the length of the timeline it resets); the return of a
\* fast run; and the completion of a switchToImage (with its key).  Every
\* other step is recorded as Other.
Other == Ev("other", 0, 0)

NoSock == [readyState |-> "none", key |-> NoKey, follow |-> FALSE,
           tOffset |-> 0, term |-> FALSE, cancelled |-> FALSE,
           delivered |-> FALSE, stale |-> FALSE, steps |-> 0]

\* No upload yet.  key and frames are what the callback has closed over;
\* image, scrubT and tOffset record the session at the time of the request.
NoUpload == [pc |-> "idle", p |-> 0, key |-> NoKey, frames |-> << >>,
             image |-> NoImg, scrubT |-> NoT, tOffset |-> 0]

\* No confirmDelete yet.  id is the image to delete and p the switchToImage
\* call it awaits; key and frames are what its callback has closed over.
NoDelete == [pc |-> "idle", id |-> NoKey, p |-> 0, key |-> NoKey,
             frames |-> << >>]

\* No image has been switched away from yet.
NoAway == [key |-> NoKey, frames |-> << >>, tOffset |-> 0, image |-> NoImg,
           stored |-> << >>]

NoCall == [pc |-> "idle", key |-> NoKey, follow |-> FALSE, steps |-> 0]

NoSwitch == [pc |-> "idle", capKey |-> NoKey, capFrames |-> << >>,
             newKey |-> NoKey, newUrl |-> NoKey, resp |-> << >>]

\* A timeline persisted by an earlier session of the same program.
InitStores ==
    { [k \in Keys |-> << >>],
      [k \in Keys |-> IF k = "A" THEN << Frame(0, 1), Frame(1, 2) >> ELSE << >>] }

\* The session at the start: no image yet (the state after construction),
\* or image k active with its persisted timeline restored (the state after
\* the preload effect's switchToImage(k) has completed), followed or with
\* the user having pinned the display to a restored frame.
InitKeys == {NoKey, "A"}

LastImage(arr) == IF Len(arr) # 0 THEN arr[Len(arr)].image ELSE NoImg

Init ==
    /\ store \in InitStores
    /\ currentImageKey \in InitKeys
    /\ uploadedImageDataUrl = currentImageKey
    /\ uploadedImage = currentImageKey
    /\ frames = IF currentImageKey = NoKey THEN << >> ELSE store[currentImageKey]
    /\ scrubT \in {NoT} \cup { frames[j].globalT : j \in 1 .. Len(frames) }
    /\ tOffsetRef = computeNextOffsetFrom(frames)
    /\ diffusedImage = ScrubEffect(frames, scrubT, LastImage(frames))
    /\ isStreaming = FALSE
    /\ currentStep = 0
    /\ streamError = ErrNone
    /\ followStream = (scrubT = NoT)
    /\ wsRef = 0
    /\ ws = [r \in 1 .. MaxCalls |-> NoSock]
    /\ nSock = 0
    /\ dcall = [d \in 1 .. MaxCalls |-> NoCall]
    /\ nDiff = 0
    /\ sw = [p \in 1 .. MaxCalls |-> NoSwitch]
    /\ nSw = 0
    /\ net = {}
    /\ nMsg = 0
    /\ up = NoUpload
    /\ diffusion = [steps |-> 500 * One]
    /\ controls = [editingSteps |-> FALSE, tempSteps |-> 500 * One]
    /\ away = NoAway
    /\ del = NoDelete
    /\ ev = Other

Live(r) == ws[r].readyState \in {"connecting", "open"}

\* ------------------------------------------------ the stream connection
\* Mutant of CancelIfOpen: the connection is not closed.
CancelNoClose(w, ref) == w

\* Mutant of CancelIfOpen: the readyState test is missing.
CancelWhatever(w, ref) ==
    IF ref # 0 THEN [w EXCEPT ![ref].readyState = "closing"] ELSE w

\* if (wsRef.current?.readyState === WebSocket.OPEN) { send(cancel); close() }
\* as written in resetTimelineForActiveImage and in switchToImage.  After
\* close() the connection is CLOSING: it delivers no more messages, and its
\* close event is still to come.
CancelIfOpen(w, ref) ==
    IF ref # 0 /\ w[ref].readyState = "open"
    THEN [w EXCEPT ![ref].readyState = "closing"]
    ELSE w

\* const nextOffset = 0 of diffuse
nextOffset == 0

\* slowDiffuse of the stream hook: opens one connection and makes it the
\* current handle.  key and follow are the values the callbacks of this
\* run have closed over.
slowDiffuse(w, id, key, follow, off, steps) ==
    [w EXCEPT ![id] = [readyState |-> "connecting", key |-> key,
                       follow |-> follow, tOffset |-> off, term |-> FALSE,
                       cancelled |-> FALSE, delivered |-> FALSE,
                       stale |-> FALSE, steps |-> steps]]

\* onProgress: (p, t) => setCurrentStep(t)
onProgress(p, t) == t

\* --------------------------------------------------------------- diffuse
\* The part of diffuse() after `await resetTimelineForActiveImage()` has
\* got past its delete: the rest of the reset, then the start of the run.
DiffuseTail(key, follow, steps, wsb) ==
    /\ frames' = ResetFrames(frames)
    /\ currentStep' = 0
    /\ diffusedImage' = ScrubEffect(frames', scrubT, NoImg)
    /\ tOffsetRef' = nextOffset
    /\ followStream' = TRUE
    /\ streamError' = ErrNone
    /\ isStreaming' = TRUE
    /\ nSock' = nSock + 1
    /\ ws' = slowDiffuse(wsb, nSock + 1, key, follow, nextOffset, steps)
    /\ wsRef' = nSock + 1

\* diffuse() without an image: the validation failure.
DiffuseInvalid ==
    /\ ~ canDiffuse(uploadedImageDataUrl)
    /\ streamError' = ErrUpload
    /\ ev' = Ev("diffuseInvalid", 0, 0)
    /\ UNCHANGED << session, wsRef, ws, nSock, dcall, nDiff, sw, nSw, store, net, nMsg >>
    /\ UNCHANGED << up, diffusion, controls, away, del >>

\* diffuse() in slow mode for an image that has a key: the open connection
\* is told to cancel and closed, the delete of the persisted timeline is
\* sent, and the call is suspended on it.
DiffuseSuspend ==
    /\ canDiffuse(uploadedImageDataUrl)
    /\ nDiff + nSw < MaxCalls
    /\ currentImageKey # NoKey
    /\ nDiff' = nDiff + 1
    /\ ws' = CancelIfOpen(ws, wsRef)
    /\ dcall' = [dcall EXCEPT ![nDiff + 1] =
                    [pc |-> "del_sent", key |-> currentImageKey,
                     follow |-> followStream, steps |-> diffusion.steps]]
    /\ ev' = Other
    /\ UNCHANGED << session, streamError, wsRef, nSock, sw, nSw, store, net, nMsg >>
    /\ UNCHANGED << up, diffusion, controls, away, del >>

\* diffuse() in slow mode for an image without a key (a local preview):
\* nothing is awaited, the whole call is one step.
DiffuseSync ==
    /\ canDiffuse(uploadedImageDataUrl)
    /\ nDiff + nSw < MaxCalls
    /\ currentImageKey = NoKey
    /\ nDiff' = nDiff + 1
    /\ dcall' = [dcall EXCEPT ![nDiff + 1] = [NoCall EXCEPT !.pc = "done"]]
    /\ DiffuseTail(NoKey, followStream, diffusion.steps,
                   CancelIfOpen(ws, wsRef))
    /\ ev' = Ev("slowDiffuse", nSock + 1, Len(frames))
    /\ UNCHANGED << currentImageKey, uploadedImageDataUrl, uploadedImage, scrubT, sw, nSw,
                    store, net, nMsg >>
    /\ UNCHANGED << up, diffusion, controls, away, del >>

\* Mutant of DeleteServer: a failed delete rejects the diffuse() that awaits
\* it, which is abandoned.
DeleteServerFatal(d, ok) ==
    /\ dcall[d].pc = "del_sent"
    /\ dcall' = [dcall EXCEPT ![d] = IF ok THEN [dcall[d] EXCEPT !.pc = "del_done"]
                                     ELSE [NoCall EXCEPT !.pc = "done"]]
    /\ store' = IF ok THEN [store EXCEPT ![dcall[d].key] = << >>] ELSE store
    /\ ev' = Other
    /\ UNCHANGED << session, streamError, wsRef, ws, nSock, nDiff, sw, nSw, net, nMsg >>
    /\ UNCHANGED << up, diffusion, controls, away, del >>

\* The server handles the delete of a persisted timeline (or fails to).
DeleteServer(d, ok) ==
    /\ dcall[d].pc = "del_sent"
    /\ dcall' = [dcall EXCEPT ![d].pc = "del_done"]
    /\ store' = IF ok THEN [store EXCEPT ![dcall[d].key] = << >>] ELSE store
    /\ ev' = Other
    /\ UNCHANGED << session, streamError, wsRef, ws, nSock, nDiff, sw, nSw, net, nMsg >>
    /\ UNCHANGED << up, diffusion, controls, away, del >>

\* The suspended diffuse() resumes after its delete.
DiffuseResume(d) ==
    /\ dcall[d].pc = "del_done"
    /\ dcall' = [dcall EXCEPT ![d] = [NoCall EXCEPT !.pc = "done"]]
    /\ DiffuseTail(dcall[d].key, dcall[d].follow, dcall[d].steps, ws)
    /\ ev' = Ev("slowDiffuse", nSock + 1, Len(frames))
    /\ UNCHANGED << currentImageKey, uploadedImageDataUrl, uploadedImage, scrubT, nDiff, sw,
                    nSw, store, net, nMsg >>
    /\ UNCHANGED << up, diffusion, controls, away, del >>

\* ------------------------------------------------------ stream callbacks
\* The connection reaches the open state; the hook sends the run request.
WsOpen(r) ==
    /\ ws[r].readyState = "connecting"
    /\ ws' = [ws EXCEPT ![r].readyState = "open"]
    /\ ev' = Other
    /\ UNCHANGED << session, streamError, wsRef, nSock, dcall, nDiff, sw, nSw,
                    store, net, nMsg >>
    /\ UNCHANGED << up, diffusion, controls, away, del >>

\* A step message arrives on connection r: onFrame(frame), then onProgress.
\* The frame is stored by the functional updater, which also sends the save
\* under the key the callback has closed over.
WsFrame(r, t, i) ==
    /\ ws[r].readyState = "open"
    /\ ~ ws[r].term
    /\ nMsg < MaxMsg
    /\ nMsg' = nMsg + 1
    /\ LET frame == Frame(t, i)
           next == InsertFrame(frames, frame)
           req == [key |-> ws[r].key, frames |-> next]
       IN  IF frame.image = NoImg
           THEN UNCHANGED << frames, net, diffusedImage >>
           ELSE /\ frames' = next
                /\ IF ws[r].key # NoKey
                   THEN net' = net \cup {req}
                   ELSE net' = net
                /\ diffusedImage' =
                       ScrubEffect(next, scrubT,
                                   IF ws[r].follow THEN frame.image
                                   ELSE diffusedImage)
    /\ currentStep' = onProgress(t + 1, MaxT)
    /\ ws' = [ws EXCEPT ![r].delivered = TRUE]
    /\ ev' = Ev("onFrame", r,
                [frame |-> Frame(t, i), idx |-> FindIndex(frames, t),
                 old |-> IF FindIndex(frames, t) >= 1
                         THEN frames[FindIndex(frames, t)].image ELSE NoImg])
    /\ UNCHANGED << currentImageKey, uploadedImageDataUrl, uploadedImage, scrubT, tOffsetRef,
                    isStreaming, streamError, followStream, wsRef, nSock,
                    dcall, nDiff, sw, nSw, store >>
    /\ UNCHANGED << up, diffusion, controls, away, del >>

\* Mutant of WsDone: onDone leaves the running flag as it is.
WsDoneKeepsFlag(r) ==
    /\ ws[r].readyState = "open"
    /\ ~ ws[r].term
    /\ ws' = [ws EXCEPT ![r].readyState = "closed", ![r].term = TRUE]
    /\ ev' = Ev("onDone", r, 0)
    /\ UNCHANGED << currentImageKey, uploadedImageDataUrl, uploadedImage, frames, scrubT,
                    tOffsetRef, diffusedImage, currentStep, streamError,
                    followStream, wsRef, nSock, dcall, nDiff, sw, nSw, store,
                    net, nMsg, isStreaming >>
    /\ UNCHANGED << up, diffusion, controls, away, del >>

\* The completion signal arrives: onDone, and the handle is closed.
WsDone(r) ==
    /\ ws[r].readyState = "open"
    /\ ~ ws[r].term
    /\ ws' = [ws EXCEPT ![r].readyState = "closed", ![r].term = TRUE]
    /\ isStreaming' = FALSE
    /\ ev' = Ev("onDone", r, 0)
    /\ UNCHANGED << currentImageKey, uploadedImageDataUrl, uploadedImage, frames, scrubT,
                    tOffsetRef, diffusedImage, currentStep, streamError,
                    followStream, wsRef, nSock, dcall, nDiff, sw, nSw, store,
                    net, nMsg >>
    /\ UNCHANGED << up, diffusion, controls, away, del >>

\* Mutant of WsError: the error handler also drops the frames received.
WsErrorClearing(r) ==
    /\ Live(r)
    /\ ~ ws[r].term
    /\ ws' = [ws EXCEPT ![r].readyState = "closed", ![r].term = TRUE]
    /\ isStreaming' = FALSE
    /\ streamError' = ErrWs
    /\ frames' = << >>
    /\ ev' = Ev("onError", r, 0)
    /\ UNCHANGED << currentImageKey, uploadedImageDataUrl, uploadedImage, scrubT,
                    tOffsetRef, diffusedImage, currentStep, followStream,
                    wsRef, nSock, dcall, nDiff, sw, nSw, store, net, nMsg >>
    /\ UNCHANGED << up, diffusion, controls, away, del >>

\* The connection fails: onError, at most once per run.
WsError(r) ==
    /\ Live(r)
    /\ ~ ws[r].term
    /\ ws' = [ws EXCEPT ![r].readyState = "closed", ![r].term = TRUE]
    /\ isStreaming' = FALSE
    /\ streamError' = ErrWs
    /\ ev' = Ev("onError", r, 0)
    /\ UNCHANGED << currentImageKey, uploadedImageDataUrl, uploadedImage, frames, scrubT,
                    tOffsetRef, diffusedImage, currentStep, followStream,
                    wsRef, nSock, dcall, nDiff, sw, nSw, store, net, nMsg >>
    /\ UNCHANGED << up, diffusion, controls, away, del >>

\* The close event of a connection that was closed from this side: the run
\* goes through Cancelled, which clears the running flag unless the run
\* has had its terminal callback already.
WsCloseEvent(r) ==
    /\ ws[r].readyState = "closing"
    /\ ws' = [ws EXCEPT ![r].readyState = "closed", ![r].term = TRUE]
    /\ isStreaming' = IF ws[r].term THEN isStreaming ELSE FALSE
    /\ ev' = IF ws[r].term THEN Other ELSE Ev("onDone", r, 1)
    /\ UNCHANGED << currentImageKey, uploadedImageDataUrl, uploadedImage, frames, scrubT,
                    tOffsetRef, diffusedImage, currentStep, streamError,
                    followStream, wsRef, nSock, dcall, nDiff, sw, nSw, store,
                    net, nMsg >>
    /\ UNCHANGED << up, diffusion, controls, away, del >>

\* cancel() of the stream hook: with an open handle, the cancel message is
\* sent, the connection is closed and the run gets its terminal callback;
\* with nothing open it does nothing.
Cancel ==
    /\ LET w == CancelIfOpen(ws, wsRef) IN
         IF w # ws
         THEN /\ ws' = [w EXCEPT ![wsRef].term = TRUE,
                                 ![wsRef].cancelled = TRUE]
              /\ isStreaming' = IF ws[wsRef].term THEN isStreaming ELSE FALSE
         ELSE UNCHANGED << ws, isStreaming >>
    /\ ev' = IF wsRef # 0 /\ ws[wsRef].readyState = "open"
             THEN Ev("cancel", wsRef, 0)
             ELSE ev
    /\ UNCHANGED << currentImageKey, uploadedImageDataUrl, uploadedImage, frames, scrubT,
                    tOffsetRef, diffusedImage, currentStep, streamError,
                    followStream, wsRef, nSock, dcall, nDiff, sw, nSw, store,
                    net, nMsg >>
    /\ UNCHANGED << up, diffusion, controls, away, del >>

\* ---------------------------------------------------------- switchToImage
DoneSwitch == [NoSwitch EXCEPT !.pc = "done"]

\* Mutant of SwitchRestore: the preview is not cleared for an empty timeline.
SwitchRestoreKeep(restored) ==
    /\ frames' = restored
    /\ scrubT' = NoT
    /\ tOffsetRef' = computeNextOffsetFrom(restored)
    /\ diffusedImage' =
          IF Len(restored) # 0 /\ restored[Len(restored)].image # NoImg
          THEN restored[Len(restored)].image
          ELSE diffusedImage
    /\ followStream' = TRUE

\* The last part of switchToImage: the restored timeline is installed.
SwitchRestore(restored) ==
    /\ frames' = restored
    /\ scrubT' = NoT
    /\ tOffsetRef' = computeNextOffsetFrom(restored)
    /\ diffusedImage' =
          IF Len(restored) # 0
          THEN IF restored[Len(restored)].image # NoImg
               THEN restored[Len(restored)].image
               ELSE diffusedImage
          ELSE NoImg
    /\ followStream' = TRUE

\* The part of switchToImage after the save: the new image becomes the
\* active one, and its timeline is loaded (awaited) unless the key is null.
SwitchSetActive(p, k, url, swb) ==
    /\ currentImageKey' = k
    /\ uploadedImageDataUrl' = url
    /\ uploadedImage' = url
    /\ IF k # NoKey
       THEN /\ sw' = [swb EXCEPT ![p].pc = "load_sent", ![p].newKey = k,
                                 ![p].newUrl = url, ![p].capKey = NoKey,
                                 ![p].capFrames = << >>]
            /\ ev' = Other
            /\ UNCHANGED << frames, scrubT, tOffsetRef, diffusedImage,
                            followStream >>
       ELSE /\ sw' = [swb EXCEPT ![p] = DoneSwitch]
            /\ ev' = Ev("switchDone", p, k)
            /\ SwitchRestore(<< >>)

SwitchArgs == { << k, k >> : k \in Keys } \cup { << NoKey, NoKey >>, << NoKey, TmpUrl >> }

\* Mutant of SwitchToImage: the active key is set before the save is sent.
SwitchKeyFirst(k, url, ck, cf) ==
    /\ nDiff + nSw < MaxCalls
    /\ nSw' = nSw + 1
    /\ ws' = [r \in 1 .. MaxCalls |->
                [CancelIfOpen(ws, wsRef)[r] EXCEPT
                    !.stale = ws[r].stale \/ Live(r)]]
    /\ streamError' = ErrNone
    /\ IF ck # NoKey
       THEN /\ sw' = [sw EXCEPT ![nSw + 1] =
                        [pc |-> "save_sent", capKey |-> ck,
                         capFrames |-> cf, newKey |-> k, newUrl |-> url,
                         resp |-> << >>]]
            /\ ev' = Other
            /\ currentImageKey' = k
            /\ UNCHANGED << uploadedImageDataUrl, uploadedImage, frames,
                            scrubT, tOffsetRef, diffusedImage, followStream >>
       ELSE SwitchSetActive(nSw + 1, k, url, sw)
    /\ UNCHANGED << isStreaming, currentStep, wsRef, nSock, dcall, nDiff,
                    store, net, nMsg >>

\* switchToImage(key, imageUrl, dataUrl) is invoked: the open connection is
\* told to cancel and closed, the error text is cleared, and the timeline of
\* the outgoing image is saved (awaited).  ck and cf are currentImageKey and
\* frames as the callback has closed over them.
SwitchToImage(k, url, ck, cf) ==
    /\ nDiff + nSw < MaxCalls
    /\ nSw' = nSw + 1
    /\ ws' = [r \in 1 .. MaxCalls |->
                [CancelIfOpen(ws, wsRef)[r] EXCEPT
                    !.stale = ws[r].stale \/ Live(r)]]
    /\ streamError' = ErrNone
    /\ IF ck # NoKey
       THEN /\ sw' = [sw EXCEPT ![nSw + 1] =
                        [pc |-> "save_sent", capKey |-> ck,
                         capFrames |-> cf, newKey |-> k, newUrl |-> url,
                         resp |-> << >>]]
            /\ ev' = Other
            /\ UNCHANGED << currentImageKey, uploadedImageDataUrl, uploadedImage, frames,
                            scrubT, tOffsetRef, diffusedImage, followStream >>
       ELSE SwitchSetActive(nSw + 1, k, url, sw)
    /\ UNCHANGED << isStreaming, currentStep, wsRef, nSock, dcall, nDiff,
                    store, net, nMsg >>

\* switchToImage invoked from the sidebar, the preload or the delete hook,
\* with the callback of the current render.
SwitchTo(k, url) ==
    /\ SwitchToImage(k, url, currentImageKey, frames)
    /\ UNCHANGED << up, diffusion, controls, away, del >>

\* Mutant of SaveServer: a failed save surfaces as an error and the switch
\* that awaited it is abandoned.
SaveServerFatal(p, ok) ==
    /\ sw[p].pc = "save_sent"
    /\ sw' = [sw EXCEPT ![p] = IF ok THEN [sw[p] EXCEPT !.pc = "save_done"]
                                ELSE DoneSwitch]
    /\ store' = IF ok THEN [store EXCEPT ![sw[p].capKey] = sw[p].capFrames]
                ELSE store
    /\ streamError' = IF ok THEN streamError ELSE ErrWs
    /\ ev' = Other
    /\ UNCHANGED << session, wsRef, ws, nSock, dcall, nDiff, nSw, net, nMsg,
                    up, diffusion, controls, away, del >>

\* The server handles the awaited save of the outgoing timeline (or fails).
SaveServer(p, ok) ==
    /\ sw[p].pc = "save_sent"
    /\ sw' = [sw EXCEPT ![p].pc = "save_done"]
    /\ store' = IF ok THEN [store EXCEPT ![sw[p].capKey] = sw[p].capFrames]
                ELSE store
    /\ ev' = Other
    /\ UNCHANGED << session, streamError, wsRef, ws, nSock, dcall, nDiff, nSw,
                    net, nMsg >>
    /\ UNCHANGED << up, diffusion, controls, away, del >>

\* switchToImage resumes after its save.
SwitchAfterSave(p) ==
    /\ sw[p].pc = "save_done"
    /\ SwitchSetActive(p, sw[p].newKey, sw[p].newUrl, sw)
    /\ UNCHANGED << isStreaming, currentStep, streamError, wsRef, ws, nSock,
                    dcall, nDiff, nSw, store, net, nMsg >>
    /\ UNCHANGED << up, diffusion, controls, away, del >>

\* Mutant of LoadServer: a failed load hands back the timeline in memory.
LoadServerKeep(p, ok) ==
    /\ sw[p].pc = "load_sent"
    /\ sw' = [sw EXCEPT ![p].pc = "load_done",
                        ![p].resp = IF ok THEN store[sw[p].newKey] ELSE frames]
    /\ ev' = Other
    /\ UNCHANGED << session, streamError, wsRef, ws, nSock, dcall, nDiff, nSw,
                    store, net, nMsg, up, diffusion,
                    controls, away, del >>

\* The server answers the load of the incoming timeline; a failed request
\* makes loadFramesForImage return [].
LoadServer(p, ok) ==
    /\ sw[p].pc = "load_sent"
    /\ sw' = [sw EXCEPT ![p].pc = "load_done",
                        ![p].resp = IF ok THEN store[sw[p].newKey] ELSE << >>]
    /\ ev' = Other
    /\ UNCHANGED << session, streamError, wsRef, ws, nSock, dcall, nDiff, nSw,
                    store, net, nMsg >>
    /\ UNCHANGED << up, diffusion, controls, away, del >>

\* switchToImage resumes after its load and installs the restored timeline.
SwitchFinish(p) ==
    /\ sw[p].pc = "load_done"
    /\ sw' = [sw EXCEPT ![p] = DoneSwitch]
    /\ SwitchRestore(sw[p].resp)
    /\ ev' = Ev("switchDone", p, sw[p].newKey)
    /\ UNCHANGED << currentImageKey, uploadedImageDataUrl, uploadedImage, isStreaming,
                    currentStep, streamError, wsRef, ws, nSock, dcall, nDiff,
                    nSw, store, net, nMsg >>
    /\ UNCHANGED << up, diffusion, controls, away, del >>

\* ------------------------------------------------------------- scrubbing
\* handleSetScrubT(t) from the timeline strip, which offers the stored frames.
HandleSetScrubT(t) ==
    /\ FindIndex(frames, t) >= 1
    /\ scrubT' = t
    /\ followStream' = IF t # NoT THEN FALSE ELSE followStream
    /\ diffusedImage' = ScrubEffect(frames, t, diffusedImage)
    /\ ev' = Other
    /\ UNCHANGED << currentImageKey, uploadedImageDataUrl, uploadedImage, frames, tOffsetRef,
                    isStreaming, currentStep, streamError, wsRef, ws, nSock,
                    dcall, nDiff, sw, nSw, store, net, nMsg >>
    /\ UNCHANGED << up, diffusion, controls, away, del >>

\* handleCloseAnalysis
HandleCloseAnalysis ==
    /\ scrubT # NoT
    /\ followStream' = TRUE
    /\ scrubT' = NoT
    /\ ev' = Other
    /\ UNCHANGED << currentImageKey, uploadedImageDataUrl, uploadedImage, frames, tOffsetRef,
                    diffusedImage, isStreaming, currentStep, streamError,
                    wsRef, ws, nSock, dcall, nDiff, sw, nSw, store, net, nMsg >>
    /\ UNCHANGED << up, diffusion, controls, away, del >>

\* A click on a point of NoiseChart / BetaChart: setScrubT(e.activeLabel),
\* the globalT of a stored frame.  The charts are handed the raw setScrubT,
\* so follow mode is left as it is.
ChartSetScrubT(t) ==
    /\ FindIndex(frames, t) >= 1
    /\ scrubT' = t
    /\ diffusedImage' = ScrubEffect(frames, t, diffusedImage)
    /\ ev' = Other
    /\ UNCHANGED << currentImageKey, uploadedImageDataUrl, uploadedImage, frames, tOffsetRef,
                    followStream,
                    isStreaming, currentStep, streamError, wsRef, ws, nSock,
                    dcall, nDiff, sw, nSw, store, net, nMsg >>
    /\ UNCHANGED << up, diffusion, controls, away, del >>

\* -------------------------------------------------------------- fast mode
\* Mutant of DiffuseFast: the timeline is reset before the mode is looked at.
DiffuseFastReset ==
    /\ canDiffuse(uploadedImageDataUrl)
    /\ nDiff + nSw < MaxCalls
    /\ nDiff' = nDiff + 1
    /\ streamError' = ErrNone
    /\ isStreaming' = FALSE
    /\ followStream' = TRUE
    /\ frames' = << >>
    /\ tOffsetRef' = 0
    /\ dcall' = [dcall EXCEPT ![nDiff + 1] =
                    [NoCall EXCEPT !.pc = "fast_sent",
                                   !.steps = diffusion.steps]]
    /\ ev' = Other
    /\ UNCHANGED << currentImageKey, uploadedImageDataUrl, uploadedImage, scrubT,
                    diffusedImage, currentStep, wsRef, ws, nSock,
                    sw, nSw, store, net, nMsg >>
    /\ UNCHANGED << up, diffusion, controls, away, del >>

\* diffuse() with mode === "fast" (the mode is an input of the call: it is
\* read nowhere else).  The call is suspended on the single request.
DiffuseFast ==
    /\ canDiffuse(uploadedImageDataUrl)
    /\ nDiff + nSw < MaxCalls
    /\ nDiff' = nDiff + 1
    /\ streamError' = ErrNone
    /\ isStreaming' = FALSE
    /\ followStream' = TRUE
    /\ dcall' = [dcall EXCEPT ![nDiff + 1] =
                    [NoCall EXCEPT !.pc = "fast_sent",
                                   !.steps = diffusion.steps]]
    /\ ev' = Other
    /\ UNCHANGED << currentImageKey, uploadedImageDataUrl, uploadedImage, frames, scrubT,
                    tOffsetRef, diffusedImage, currentStep, wsRef, ws, nSock,
                    sw, nSw, store, net, nMsg >>
    /\ UNCHANGED << up, diffusion, controls, away, del >>

\* fastDiffuse returns: with the final image, which replaces the displayed
\* one, or with an error, which diffuse() does not catch.
FastReturn(d, ok, i) ==
    /\ dcall[d].pc = "fast_sent"
    /\ dcall' = [dcall EXCEPT ![d] = [NoCall EXCEPT !.pc = "done"]]
    /\ diffusedImage' = IF ok THEN i ELSE diffusedImage
    /\ ev' = Ev("fastDone", d, ok)
    /\ UNCHANGED << currentImageKey, uploadedImageDataUrl, uploadedImage, frames, scrubT,
                    tOffsetRef, isStreaming, currentStep, streamError,
                    followStream, wsRef, ws, nSock, nDiff, sw, nSw, store,
                    net, nMsg >>
    /\ UNCHANGED << up, diffusion, controls, away, del >>

\* ---------------------------------------------------------- handleUpload
\* The id the server gives to an uploaded image.
NewKey == "B"

\* handleUpload(file) with an image file: the timeline of the active image
\* is saved (not awaited), and the file is read (awaited).
UploadStart ==
    /\ up.pc = "idle"
    /\ up' = [pc |-> "reading", p |-> 0, key |-> currentImageKey,
              frames |-> frames, image |-> diffusedImage, scrubT |-> scrubT,
              tOffset |-> tOffsetRef]
    /\ net' = IF currentImageKey # NoKey
              THEN net \cup {[key |-> currentImageKey, frames |-> frames]}
              ELSE net
    /\ ev' = Other
    /\ UNCHANGED << session, streamError, wsRef, ws, nSock, dcall, nDiff, sw,
                    nSw, store, nMsg, diffusion, controls, away, del >>

\* The file has been read: await switchToImage(null, objectUrl, dataUrl),
\* the local preview, before anything is sent to the server.
UploadRead ==
    /\ up.pc = "reading"
    /\ SwitchToImage(NoKey, TmpUrl, up.key, up.frames)
    /\ up' = [up EXCEPT !.pc = "switching", !.p = nSw + 1]
    /\ UNCHANGED << diffusion, controls, away, del >>

\* The switch to the preview has completed: api.images.upload(file) is sent.
UploadSend ==
    /\ up.pc = "switching"
    /\ sw[up.p].pc = "done"
    /\ up' = [up EXCEPT !.pc = "upload_sent"]
    /\ ev' = Other
    /\ UNCHANGED << session, streamError, wsRef, ws, nSock, dcall, nDiff, sw,
                    nSw, store, net, nMsg, diffusion, controls, away, del >>

\* The server answers the upload.  On success the uploaded image is
\* switched to; on failure the catch block logs the error and nothing else.
UploadServer(ok) ==
    /\ up.pc = "upload_sent"
    /\ IF ok
       THEN /\ SwitchToImage(NewKey, NewKey, up.key, up.frames)
            /\ up' = [up EXCEPT !.pc = "done", !.p = nSw + 1]
       ELSE /\ up' = [up EXCEPT !.pc = "failed"]
            /\ ev' = Ev("uploadFailed", 0, 0)
            /\ UNCHANGED << session, streamError, wsRef, ws, nSock, dcall,
                            nDiff, sw, nSw, store, net, nMsg >>
    /\ UNCHANGED << diffusion, controls, away, del >>

\* ------------------------------------------- fire-and-forget persistence
\* The server handles a save sent by onFrame: it lands, or it fails and
\* saveFramesForImage only logs the failure.
SaveLand(m, ok) ==
    /\ m \in net
    /\ net' = net \ {m}
    /\ store' = IF ok THEN [store EXCEPT ![m.key] = m.frames] ELSE store
    /\ ev' = Other
    /\ UNCHANGED << session, streamError, wsRef, ws, nSock, dcall, nDiff, sw,
                    nSw, nMsg >>
    /\ UNCHANGED << up, diffusion, controls, away, del >>

\* ----------------------------------------------------------- the system
Next ==
    \/ DiffuseInvalid
    \/ DiffuseSuspend
    \/ DiffuseSync
    \/ \E d \in 1 .. MaxCalls, ok \in BOOLEAN : DeleteServer(d, ok)
    \/ \E d \in 1 .. MaxCalls : DiffuseResume(d)
    \/ \E r \in 1 .. MaxCalls : WsOpen(r)
    \/ \E r \in 1 .. MaxCalls, t \in TRange, i \in {NoImg} \cup Imgs : WsFrame(r, t, i)
    \/ \E r \in 1 .. MaxCalls : WsDone(r)
    \/ \E r \in 1 .. MaxCalls : WsError(r)
    \/ \E r \in 1 .. MaxCalls : WsCloseEvent(r)
    \/ Cancel
    \/ \E a \in SwitchArgs : SwitchTo(a[1], a[2])
    \/ \E p \in 1 .. MaxCalls, ok \in BOOLEAN : SaveServer(p, ok)
    \/ \E p \in 1 .. MaxCalls : SwitchAfterSave(p)
    \/ \E p \in 1 .. MaxCalls, ok \in BOOLEAN : LoadServer(p, ok)
    \/ \E p \in 1 .. MaxCalls : SwitchFinish(p)
    \/ \E t \in TRange : HandleSetScrubT(t)
    \/ \E t \in TRange : ChartSetScrubT(t)
    \/ HandleCloseAnalysis
    \/ DiffuseFast
    \/ \E d \in 1 .. MaxCalls, ok \in BOOLEAN, i \in Imgs : FastReturn(d, ok, i)
    \/ \E m \in net, ok \in BOOLEAN : SaveLand(m, ok)

Spec == Init /\ [][Next]_vars

\* The first diffuse() and the first switchToImage() of a session, with
\* everything they set off.
FirstDiffuse == nDiff = 0 /\ (DiffuseSuspend \/ DiffuseSync)

FirstSwitch == nSw = 0 /\ \E a \in SwitchArgs : SwitchTo(a[1], a[2])

NextOne ==
    \/ DiffuseInvalid
    \/ FirstDiffuse
    \/ FirstSwitch
    \/ \E p \in 1 .. MaxCalls, ok \in BOOLEAN : SaveServer(p, ok)
    \/ \E p \in 1 .. MaxCalls : SwitchAfterSave(p)
    \/ \E p \in 1 .. MaxCalls, ok \in BOOLEAN : LoadServer(p, ok)
    \/ \E p \in 1 .. MaxCalls : SwitchFinish(p)
    \/ \E d \in 1 .. MaxCalls, ok \in BOOLEAN : DeleteServer(d, ok)
    \/ \E d \in 1 .. MaxCalls : DiffuseResume(d)
    \/ \E r \in 1 .. MaxCalls : WsOpen(r)
    \/ \E r \in 1 .. MaxCalls, t \in TRange, i \in {NoImg} \cup Imgs : WsFrame(r, t, i)
    \/ \E r \in 1 .. MaxCalls : WsDone(r)
    \/ \E r \in 1 .. MaxCalls : WsError(r)
    \/ \E r \in 1 .. MaxCalls : WsCloseEvent(r)
    \/ Cancel

SpecOne == Init /\ [][NextOne]_vars

\* Mutant of StreamStep: step messages are handed over in any order.
StreamStepAnyOrder(r, i) == \E t \in TRange : WsFrame(r, t, i)

\* The stream hook hands the step messages of a run to onFrame as section
\* 4.2 has it: once per globalT, counting up from the tOffset of the run.
\* (With a single run, nMsg is the number of messages of that run.)
StreamStep(r, i) == WsFrame(r, ws[r].tOffset + nMsg, i)

\* One slow run whose messages arrive in that order, and one switchToImage.
NextStream ==
    \/ FirstDiffuse
    \/ FirstSwitch
    \/ \E p \in 1 .. MaxCalls, ok \in BOOLEAN : SaveServer(p, ok)
    \/ \E p \in 1 .. MaxCalls : SwitchAfterSave(p)
    \/ \E p \in 1 .. MaxCalls, ok \in BOOLEAN : LoadServer(p, ok)
    \/ \E p \in 1 .. MaxCalls : SwitchFinish(p)
    \/ \E d \in 1 .. MaxCalls, ok \in BOOLEAN : DeleteServer(d, ok)
    \/ \E d \in 1 .. MaxCalls : DiffuseResume(d)
    \/ \E r \in 1 .. MaxCalls : WsOpen(r)
    \/ \E r \in 1 .. MaxCalls, i \in {NoImg} \cup Imgs : StreamStep(r, i)
    \/ \E r \in 1 .. MaxCalls : WsDone(r)
    \/ \E r \in 1 .. MaxCalls : WsError(r)
    \/ \E r \in 1 .. MaxCalls : WsCloseEvent(r)
    \/ Cancel

SpecStream == Init /\ [][NextStream]_vars

\* The same, with the saves sent by onFrame handled by a server on which
\* every save succeeds; they are handled in any order.
NextSave ==
    \/ NextStream
    \/ \E m \in net : SaveLand(m, TRUE)

SpecSave == Init /\ [][NextSave]_vars

\* The same, with saves that can fail as well.
NextPersist ==
    \/ NextSave
    \/ \E m \in net : SaveLand(m, FALSE)

SpecPersist == Init /\ [][NextPersist]_vars

\* ---------------------------------------------------------- chart points
\* Frames as the stream delivers them to the charts: with a metrics object
\* whose similarity is under the key Cosine or cosine, and with betas.
MetricVals == {Undefined, Num(One), NotFinite}
BetaVals == {Undefined, Num(2), NotFinite}

MetricFrames ==
    [globalT : TRange, image : {1},
     metrics : [Cosine : MetricVals, cosine : MetricVals],
     betas : BetaVals]

\* onFrame stores a frame that carries metrics; the Dashboard derives the
\* chart points from the timeline on every render.
OnFrameMetrics(f) ==
    /\ frames' = InsertFrame(frames, f)
    /\ UNCHANGED << currentImageKey, uploadedImageDataUrl, uploadedImage, scrubT, tOffsetRef,
                    diffusedImage, isStreaming, currentStep, streamError,
                    followStream, wsRef, ws, nSock, dcall, nDiff, sw, nSw,
                    store, net, nMsg, up, diffusion,
                    controls, away, del, ev >>

InitChart == Init /\ currentImageKey = NoKey /\ store = [k \in Keys |-> << >>]

NextChart == \E f \in MetricFrames : OnFrameMetrics(f)

SpecChart == InitChart /\ [][NextChart]_vars

\* Calls of diffuse() in fast mode, beside one slow run and one switchToImage.
NextFast ==
    \/ NextStream
    \/ DiffuseFast
    \/ \E d \in 1 .. MaxCalls, ok \in BOOLEAN, i \in Imgs : FastReturn(d, ok, i)

SpecFast == Init /\ [][NextFast]_vars

\* --------------------------------------------------------- confirmDelete
\* What a step of confirmDelete leaves alone, besides what it names.
DeleteOnly ==
    /\ ev' = Other
    /\ UNCHANGED << currentImageKey, uploadedImageDataUrl, frames, scrubT,
                    tOffsetRef, diffusedImage, isStreaming, currentStep,
                    followStream, streamError, wsRef, ws, nSock, dcall, nDiff,
                    sw, nSw, net, nMsg, up, diffusion, controls, away >>

\* confirmDelete(selectedForDelete) for an image of the history.  For the
\* active image the delete of its persisted timeline is sent and awaited;
\* for another image the image is removed from the sidebar and
\* api.images.remove(id) is sent.
DeleteStart(id) ==
    /\ del.pc = "idle"
    /\ del' = [pc |-> IF currentImageKey = id THEN "frames_sent"
                      ELSE "remove_sent",
               id |-> id, p |-> 0, key |-> currentImageKey, frames |-> frames]
    /\ UNCHANGED << store, uploadedImage >>
    /\ DeleteOnly

\* The server handles the delete of the persisted timeline (or fails to).
DeleteFramesServer(ok) ==
    /\ del.pc = "frames_sent"
    /\ del' = [del EXCEPT !.pc = "frames_done"]
    /\ store' = IF ok THEN [store EXCEPT ![del.id] = << >>] ELSE store
    /\ UNCHANGED uploadedImage
    /\ DeleteOnly

\* confirmDelete resumes: await switchToImage(null, null, null), with the
\* switchToImage of the render confirmDelete was made in.
DeleteSwitch ==
    /\ del.pc = "frames_done"
    /\ SwitchToImage(NoKey, NoKey, del.key, del.frames)
    /\ del' = [del EXCEPT !.pc = "switching", !.p = nSw + 1]
    /\ UNCHANGED << up, diffusion, controls, away >>

\* The switch has completed: removeById(id), and api.images.remove(id) is
\* sent.
DeleteRemove ==
    /\ del.pc = "switching"
    /\ sw[del.p].pc = "done"
    /\ del' = [del EXCEPT !.pc = "remove_sent"]
    /\ UNCHANGED << store, uploadedImage >>
    /\ DeleteOnly

\* The server answers the remove.  On success refreshHistory() and
\* setUploadedImage(null); on failure the error is logged.
DeleteRemoveServer(ok) ==
    /\ del.pc = "remove_sent"
    /\ del' = [del EXCEPT !.pc = "done"]
    /\ uploadedImage' = IF ok THEN NoKey ELSE uploadedImage
    /\ UNCHANGED store
    /\ DeleteOnly

\* One slow run and one confirmDelete; the only switchToImage is the one
\* confirmDelete makes, to the null key, which loads nothing.
NextDelete ==
    \/ FirstDiffuse
    \/ \E p \in 1 .. MaxCalls, ok \in BOOLEAN : SaveServer(p, ok)
    \/ \E p \in 1 .. MaxCalls : SwitchAfterSave(p)
    \/ \E d \in 1 .. MaxCalls, ok \in BOOLEAN : DeleteServer(d, ok)
    \/ \E d \in 1 .. MaxCalls : DiffuseResume(d)
    \/ \E r \in 1 .. MaxCalls : WsOpen(r)
    \/ \E r \in 1 .. MaxCalls, i \in {NoImg} \cup Imgs : StreamStep(r, i)
    \/ \E r \in 1 .. MaxCalls : WsDone(r)
    \/ \E r \in 1 .. MaxCalls : WsError(r)
    \/ \E r \in 1 .. MaxCalls : WsCloseEvent(r)
    \/ Cancel
    \/ \E id \in Keys : DeleteStart(id)
    \/ \E ok \in BOOLEAN : DeleteFramesServer(ok)
    \/ DeleteSwitch
    \/ DeleteRemove
    \/ \E ok \in BOOLEAN : DeleteRemoveServer(ok)

SpecDelete == Init /\ [][NextDelete]_vars

\* ---------------------------------------------------- switching in turn
\* Timelines persisted by earlier runs on A and on B.
RoundStores ==
    { [k \in Keys |-> IF k = "A" THEN a ELSE b] :
        a \in { << >>, << Frame(0, 1) >>, << Frame(0, 1), Frame(1, 2) >> },
        b \in { << >>, << Frame(0, 2) >> } }

\* Image A is active and no run or switch is under way: after the switch to
\* A (tOffsetRef is the next offset of the restored timeline), or after a
\* slow run on A of this session has ended and its saves have landed
\* (tOffsetRef is the nextOffset of diffuse()).
InitRound ==
    /\ store \in RoundStores
    /\ currentImageKey = "A"
    /\ uploadedImageDataUrl = "A"
    /\ uploadedImage = "A"
    /\ frames = store["A"]
    /\ scrubT = NoT
    /\ tOffsetRef \in {nextOffset, computeNextOffsetFrom(frames)}
    /\ diffusedImage = LastImage(frames)
    /\ isStreaming = FALSE
    /\ currentStep = 0
    /\ streamError = ErrNone
    /\ followStream = TRUE
    /\ wsRef = 0
    /\ ws = [r \in 1 .. MaxCalls |-> NoSock]
    /\ nSock = 0
    /\ dcall = [d \in 1 .. MaxCalls |-> NoCall]
    /\ nDiff = 0
    /\ sw = [p \in 1 .. MaxCalls |-> NoSwitch]
    /\ nSw = 0
    /\ net = {}
    /\ nMsg = 0
    /\ up = NoUpload
    /\ diffusion = [steps |-> 500 * One]
    /\ controls = [editingSteps |-> FALSE, tempSteps |-> 500 * One]
    /\ away = NoAway
    /\ del = NoDelete
    /\ ev = Other

\* switchToImage to another image, invoked when no switch is under way.
\* The session of the first keyed image that is left is kept in away.
RoundSwitch(k, url) ==
    /\ \A p \in 1 .. MaxCalls : sw[p].pc \in {"idle", "done"}
    /\ k # currentImageKey
    /\ SwitchToImage(k, url, currentImageKey, frames)
    /\ away' = IF away.key = NoKey /\ currentImageKey # NoKey
               THEN [key |-> currentImageKey, frames |-> frames,
                     tOffset |-> tOffsetRef, image |-> diffusedImage,
                     stored |-> store[currentImageKey]]
               ELSE away
    /\ UNCHANGED << up, diffusion, controls, del >>

\* Switches in turn, on a server on which every save and load succeeds.
NextRound ==
    \/ \E a \in SwitchArgs : RoundSwitch(a[1], a[2])
    \/ \E p \in 1 .. MaxCalls : SaveServer(p, TRUE)
    \/ \E p \in 1 .. MaxCalls : SwitchAfterSave(p)
    \/ \E p \in 1 .. MaxCalls : LoadServer(p, TRUE)
    \/ \E p \in 1 .. MaxCalls : SwitchFinish(p)

SpecRound == InitRound /\ [][NextRound]_vars

\* Switches in turn, on a server on which a save or a load can fail.
NextLoad ==
    \/ \E a \in SwitchArgs : RoundSwitch(a[1], a[2])
    \/ \E p \in 1 .. MaxCalls, ok \in BOOLEAN : SaveServer(p, ok)
    \/ \E p \in 1 .. MaxCalls : SwitchAfterSave(p)
    \/ \E p \in 1 .. MaxCalls, ok \in BOOLEAN : LoadServer(p, ok)
    \/ \E p \in 1 .. MaxCalls : SwitchFinish(p)

SpecLoad == Init /\ [][NextLoad]_vars

\* One slow run and one switchToImage, with A active at the start and
\* timelines persisted for both images.
SpecMix == InitRound /\ [][NextStream]_vars

\* ------------------------------------------------------------ Controls
\* The values a user can give to a steps input, as the strings e.target.value
\* holds.  A number input accepts any number and the empty text; its min and
\* max attributes do not restrict what is typed.  A range input with min 1,
\* max 1000 and the default step gives whole numbers from 1 to 1000 only.
TypedSteps == {"", "1", "7", "1000", "5000", "2.5"}

SliderSteps == {"1", "7", "1000"}

\* Number(e.target.value), in thousandths.
Number(x) ==
    CASE x = "" -> 0
      [] x = "1" -> One
      [] x = "7" -> 7 * One
      [] x = "1000" -> 1000 * One
      [] x = "5000" -> 5000 * One
      [] x = "2.5" -> 2500

\* clamp of utils/image.
clamp(v, lo, hi) == IF v < lo THEN lo ELSE IF v > hi THEN hi ELSE v

\* totalSteps = clamp(Number(diffusion.steps) || 1, 1, 1000)
totalSteps(d) == clamp(IF d.steps = 0 THEN One ELSE d.steps, One, 1000 * One)

\* An edit of the configuration touches nothing else.
ConfigOnly ==
    /\ ev' = Other
    /\ UNCHANGED << session, streamError, wsRef, ws, nSock, dcall, nDiff, sw,
                    nSw, store, net, nMsg, up, away, del >>

\* onChange of the slider.
SliderChange(x) ==
    /\ diffusion' = [diffusion EXCEPT !.steps = Number(x)]
    /\ UNCHANGED controls
    /\ ConfigOnly

\* onClick of the displayed steps value: the inline edit starts.
StepsClick ==
    /\ ~ controls.editingSteps
    /\ controls' = [editingSteps |-> TRUE, tempSteps |-> diffusion.steps]
    /\ UNCHANGED diffusion
    /\ ConfigOnly

\* onChange of the inline edit: setTempSteps(e.target.value).  tempSteps is
\* kept as the number that the Number(tempSteps) of onBlur makes of it.
TempStepsChange(x) ==
    /\ controls.editingSteps
    /\ controls' = [controls EXCEPT !.tempSteps = Number(x)]
    /\ UNCHANGED diffusion
    /\ ConfigOnly

\* onBlur of the inline edit (Enter blurs it): the value is brought into
\* 1 .. 1000 and stored.
StepsBlur ==
    /\ controls.editingSteps
    /\ diffusion' = [diffusion EXCEPT !.steps =
                        IF controls.tempSteps < One THEN One
                        ELSE IF controls.tempSteps > 1000 * One
                             THEN 1000 * One
                             ELSE controls.tempSteps]
    /\ controls' = [controls EXCEPT !.editingSteps = FALSE]
    /\ ConfigOnly

\* Escape in the inline edit: the edit is dropped.
StepsEscape ==
    /\ controls.editingSteps
    /\ controls' = [editingSteps |-> FALSE, tempSteps |-> diffusion.steps]
    /\ UNCHANGED diffusion
    /\ ConfigOnly

\* onChange of the mobile number input.
MobileStepsChange(x) ==
    /\ diffusion' = [diffusion EXCEPT !.steps = Number(x)]
    /\ UNCHANGED controls
    /\ ConfigOnly

\* Edits of the steps field, and the first diffuse() in either mode.
NextConfig ==
    \/ \E x \in SliderSteps : SliderChange(x)
    \/ StepsClick
    \/ \E x \in TypedSteps : TempStepsChange(x)
    \/ StepsBlur
    \/ StepsEscape
    \/ \E x \in TypedSteps : MobileStepsChange(x)
    \/ FirstDiffuse
    \/ nDiff = 0 /\ DiffuseFast
    \/ \E d \in 1 .. MaxCalls, ok \in BOOLEAN : DeleteServer(d, ok)
    \/ \E d \in 1 .. MaxCalls : DiffuseResume(d)
    \/ \E d \in 1 .. MaxCalls, ok \in BOOLEAN, i \in Imgs : FastReturn(d, ok, i)

SpecConfig == Init /\ [][NextConfig]_vars

\* ------------------------------------------------------------- unmount
\* The cleanup of the Dashboard's unmount effect: wsRef.current?.close(),
\* whatever the readyState.  close() on a connection that is CONNECTING or
\* OPEN makes it CLOSING; on a CLOSING or CLOSED one it changes nothing.
Unmount ==
    /\ ws' = IF wsRef # 0 /\ Live(wsRef)
             THEN [ws EXCEPT ![wsRef].readyState = "closing"]
             ELSE ws
    /\ ev' = Ev("unmount", wsRef, 0)
    /\ UNCHANGED << session, streamError, wsRef, nSock, dcall, nDiff, sw, nSw,
                    store, net, nMsg, up, diffusion,
                    controls, away, del >>

\* One slow run and one switchToImage, until the Dashboard is unmounted.
NextUnmount ==
    \/ ev.op # "unmount" /\ NextStream
    \/ ev.op # "unmount" /\ Unmount

SpecUnmount == Init /\ [][NextUnmount]_vars

\* One slow run and one handleUpload.
NextUpload ==
    \/ FirstDiffuse
    \/ \E d \in 1 .. MaxCalls, ok \in BOOLEAN : DeleteServer(d, ok)
    \/ \E d \in 1 .. MaxCalls : DiffuseResume(d)
    \/ \E r \in 1 .. MaxCalls : WsOpen(r)
    \/ \E r \in 1 .. MaxCalls, i \in {NoImg} \cup Imgs : StreamStep(r, i)
    \/ \E r \in 1 .. MaxCalls : WsDone(r)
    \/ \E r \in 1 .. MaxCalls : WsError(r)
    \/ \E r \in 1 .. MaxCalls : WsCloseEvent(r)
    \/ Cancel
    \/ UploadStart
    \/ UploadRead
    \/ UploadSend
    \/ \E ok \in BOOLEAN : UploadServer(ok)
    \/ \E p \in 1 .. MaxCalls, ok \in BOOLEAN : SaveServer(p, ok)
    \/ \E p \in 1 .. MaxCalls : SwitchAfterSave(p)
    \/ \E p \in 1 .. MaxCalls, ok \in BOOLEAN : LoadServer(p, ok)
    \/ \E p \in 1 .. MaxCalls : SwitchFinish(p)
    \/ \E m \in net, ok \in BOOLEAN : SaveLand(m, ok)

SpecUpload == Init /\ [][NextUpload]_vars

\* The browser delivers the close event of every connection that close()
\* was called on.
SpecStreamFair ==
    SpecStream /\ \A r \in 1 .. MaxCalls : WF_vars(WsCloseEvent(r))

\* The server answers every delete, and a diffuse() whose awaited delete has
\* been answered is resumed.
SpecResetFair ==
    /\ SpecStream
    /\ \A d \in 1 .. MaxCalls :
          /\ WF_vars(\E ok \in BOOLEAN : DeleteServer(d, ok))
          /\ WF_vars(DiffuseResume(d))

\* ============================================================ properties
Socks == 1 .. MaxCalls

Sorted(arr) ==
    \A j \in 1 .. Len(arr) - 1 : arr[j].globalT < arr[j + 1].globalT

\* A step message with an image is stored by connection r.
Stored(r) ==
    /\ nMsg' # nMsg
    /\ ev'.op = "onFrame"
    /\ ev'.id = r
    /\ ev'.arg.frame.image # NoImg

\* A call of diffuse() fails its validation or gets past it.
RunInvoked == ev'.op = "diffuseInvalid" \/ nDiff' # nDiff

\* A slow run is started: slowDiffuse opens its connection.
RunStarted == nSock' # nSock

\* A switchToImage call runs to its end.
SwitchCompleted == ev'.op = "switchDone" /\ sw' # sw

NoSwitchPending(s) == \A p \in Socks : s[p].pc \in {"idle", "done"}

\* The timeline the server holds for key k (none for the null key).
Persisted(st, k) == IF k = NoKey THEN << >> ELSE st[k]

\* ---- C1 ----
\* C1: in every reachable state the in-memory timeline is sorted strictly
\* ascending by globalT, hence without two frames of the same globalT:
\* after every insertion by onFrame whatever the order of arrival, after
\* the reset of diffuse(), and after switchToImage installs a loaded
\* timeline.
C1_FramesSortedUnique == Sorted(frames)

\* C1 witness: a frame that arrived out of order has just been stored in
\* front of a frame with a larger globalT.
C1_Witness ==
    /\ ev.op = "onFrame"
    /\ ev.arg.frame.image # NoImg
    /\ ev.arg.idx = 0
    /\ Len(frames) >= 2
    /\ frames[1] = ev.arg.frame

\* ---- C2 ----
\* C2: when onFrame stores a frame whose globalT is already in the
\* timeline, the length of the timeline is unchanged, every other frame
\* keeps its value and position, and the frame stored for that globalT is
\* the one that arrived last.
C2_DuplicateLastWriteWins ==
    [][\A r \in Socks :
          (Stored(r) /\ FindIndex(frames, ev'.arg.frame.globalT) >= 1) =>
             /\ Len(frames') = Len(frames)
             /\ \A j \in 1 .. Len(frames) :
                   frames'[j] = IF frames[j].globalT = ev'.arg.frame.globalT
                                THEN ev'.arg.frame
                                ELSE frames[j]]_vars

\* C2 witness: a frame has just replaced a stored frame of the same globalT
\* that carried a different image, in a timeline of two frames or more.
C2_Witness ==
    /\ ev.op = "onFrame"
    /\ ev.arg.frame.image # NoImg
    /\ ev.arg.idx >= 1
    /\ ev.arg.old # ev.arg.frame.image
    /\ Len(frames) >= 2
    /\ frames[ev.arg.idx] = ev.arg.frame

\* ---- C3 ----
\* C3: at every instant at most one connection of a slow run is connecting
\* or open.
C3_AtMostOneLiveHandle ==
    Cardinality({r \in Socks : Live(r)}) <= 1

\* ---- C4 ----
\* C4: once a later run has had a frame delivered, every earlier run has
\* had its terminal callback, and no frame of an earlier run is delivered
\* any more.
C4_FirstRunEndsBeforeSecondDelivers ==
    [][\A r1, r2 \in Socks :
          (r1 < r2 /\ ws'[r2].delivered) =>
             /\ ws'[r1].term
             /\ ~ (nMsg' # nMsg /\ ev'.op = "onFrame" /\ ev'.id = r1)]_vars

\* ---- C5 ----
\* C5: a connection that was in flight when switchToImage was invoked
\* never stores a frame in the timeline of another image: once no switch
\* is pending, a frame stored by such a connection goes to the timeline of
\* the image the connection was started for.
C5_NoFrameOfFormerImage ==
    [][\A r \in Socks :
          (Stored(r) /\ ws[r].stale /\ NoSwitchPending(sw)) =>
             ws[r].key = currentImageKey]_vars

\* ---- C6 ----
\* C6: whenever the active image key changes, no connection is connecting
\* or open.
C6_KeyChangesOnlyWithHandlesClosed ==
    [][currentImageKey' # currentImageKey =>
          \A r \in Socks : ~ Live(r)]_vars

\* ---- C7 ----
\* C7: when the last of the pending switchToImage calls completes, the
\* in-memory timeline is the one loaded for the key that is active: the
\* completing call is the one that made the key active, or what it
\* installs is what the server holds for the active key.
C7_TimelineOfActiveKey ==
    [][(SwitchCompleted /\ NoSwitchPending(sw')) =>
          \/ ev'.arg = currentImageKey'
          \/ frames' = Persisted(store', currentImageKey')]_vars

\* ---- C8 ----
\* C8: when a switchToImage(newKey, ...) call completes, the active key is
\* newKey, the timeline is the one its load returned (empty for the null
\* key), scrubT is null, tOffset is the next offset of that timeline and
\* follow mode is on.
C8_StateAtSwitchCompletion ==
    [][\A p \in Socks :
          (SwitchCompleted /\ ev'.id = p) =>
             /\ currentImageKey' = ev'.arg
             /\ frames' = (IF sw[p].pc = "load_done" THEN sw[p].resp
                           ELSE << >>)
             /\ scrubT' = NoT
             /\ tOffsetRef' = computeNextOffsetFrom(frames')
             /\ followStream' = TRUE]_vars

\* ---- C9 ----
\* C9: diffuse() invoked without an image sets the validation message and
\* changes nothing else: no connection is made, no save or delete is
\* issued, and the timeline, the displayed image, the progress counter,
\* tOffset, follow mode and the running flag stay as they were.
C9_InvalidRunHasNoEffect ==
    [][(uploadedImageDataUrl = NoKey /\ RunInvoked) =>
          /\ streamError' = ErrUpload
          /\ UNCHANGED << session, wsRef, ws, nSock, dcall, sw, store,
                          net >>]_vars

\* C9 witness: the validation has just failed in a session that holds
\* frames and whose running flag is set.
C9_Witness ==
    /\ ev.op = "diffuseInvalid"
    /\ streamError = ErrUpload
    /\ uploadedImageDataUrl = NoKey
    /\ frames # << >>
    /\ isStreaming

\* ---- C11 ----
\* C11: while follow mode is on and scrubT is null, every frame of the slow
\* stream that is stored becomes the displayed image at that step.
C11_FollowedFrameIsDisplayed ==
    [][\A r \in Socks :
          (Stored(r) /\ followStream /\ scrubT = NoT) =>
             diffusedImage' = ev'.arg.frame.image]_vars

\* ---- C12 ----
\* C12: while scrubT is the globalT of a stored frame, the displayed image
\* is the image of that frame, whatever arrives or completes meanwhile.
C12_PinnedFrameIsDisplayed ==
    (scrubT # NoT /\ FindIndex(frames, scrubT) >= 1) =>
        diffusedImage = frames[FindIndex(frames, scrubT)].image

\* ---- C13 ----
\* C13: in every reachable state follow mode is on exactly when scrubT is
\* null.
C13_FollowIffNotScrubbing == followStream <=> (scrubT = NoT)

C16_EndOfRunKeepsFrames ==
    [][ev'.op \in {"cancel", "onError"} => frames' = frames]_vars

\* C16 witness: a run that had delivered frames has just ended with a
\* transport error, and the timeline holds two frames.
C16_Witness ==
    /\ ev.op = "onError"
    /\ ws[ev.id].delivered
    /\ Len(frames) >= 2
    /\ streamError = ErrWs
    /\ ~ isStreaming

C19_PersistedIsFinalTimeline ==
    \A r \in Socks :
        ( /\ wsRef = r
          /\ ws[r].readyState = "closed"
          /\ ws[r].term
          /\ ~ ws[r].cancelled
          /\ streamError = ErrNone
          /\ nSw = 0
          /\ currentImageKey # NoKey
          /\ ws[r].key = currentImageKey
          /\ Len(frames) >= 1
          /\ net = {} )
        => store[currentImageKey] = frames

\* C19 witness: the run has completed with two frames stored and all of
\* its saves have been handled.
C19_Witness ==
    /\ wsRef # 0
    /\ ws[wsRef].readyState = "closed"
    /\ ws[wsRef].term
    /\ ~ ws[wsRef].cancelled
    /\ streamError = ErrNone
    /\ nSw = 0
    /\ currentImageKey # NoKey
    /\ ws[wsRef].key = currentImageKey
    /\ net = {}
    /\ Len(frames) = 2

\* ---- C20 ----
\* C20: when the upload of a new image fails while an image was active at
\* the time of the request and no run has been invoked, the active key, the
\* timeline, the displayed image, scrubT and tOffset are what they were
\* when the upload was requested.
C20_FailedUploadKeepsSession ==
    [][(up.pc = "upload_sent" /\ up'.pc = "failed" /\ up.key # NoKey
          /\ nDiff = 0)
       => /\ currentImageKey' = up.key
          /\ frames' = up.frames
          /\ diffusedImage' = up.image
          /\ scrubT' = up.scrubT
          /\ tOffsetRef' = up.tOffset]_vars

\* C20 witness: an upload requested with image A active has failed.
C20_Witness ==
    /\ up.pc = "failed"
    /\ up.key = "A"
    /\ Len(up.frames) = 2
    /\ nDiff = 0
    /\ ev.op = "uploadFailed"

\* ---- C21 ----
\* C21: a step in which the server handles a save without the persisted
\* timelines changing (a failed save, awaited by switchToImage or sent by
\* onFrame) leaves the timeline, scrubT, tOffset, the displayed image, the
\* error text, the running flag and the connections as they are, and the
\* switchToImage that awaited it goes on to its next step.
C21_FailedSaveIsNonFatal ==
    [][/\ (net' # net /\ net' \subseteq net /\ store' = store) =>
             UNCHANGED << frames, scrubT, tOffsetRef, diffusedImage,
                          streamError, isStreaming, ws, wsRef, sw >>
       /\ \A p \in Socks :
             (sw[p].pc = "save_sent" /\ sw'[p].pc # "save_sent"
                /\ store' = store) =>
                /\ sw'[p] = [sw[p] EXCEPT !.pc = "save_done"]
                /\ UNCHANGED << frames, scrubT, tOffsetRef, diffusedImage,
                                streamError, isStreaming, ws, wsRef,
                                currentImageKey >>]_vars

\* C21 witness: the save sent by onFrame for the first frame of a run has
\* failed (the persisted timeline is still empty), the run goes on.
C21_Witness ==
    /\ wsRef # 0
    /\ ws[wsRef].readyState = "open"
    /\ ws[wsRef].key = currentImageKey
    /\ currentImageKey # NoKey
    /\ isStreaming
    /\ Len(frames) = 1
    /\ net = {}
    /\ store[currentImageKey] = << >>
    /\ streamError = ErrNone

\* ---- C22 ----
\* C22: the load awaited by switchToImage always comes back, with the
\* persisted timeline of the key or with the empty sequence (nothing
\* stored, or the request failed), and without an error text; the caller
\* installs what came back, and for the null key it installs the empty
\* sequence without a request.
C22_LoadNeverRaises ==
    [][\A p \in Socks :
          /\ (sw[p].pc = "load_sent" /\ sw'[p].pc # "load_sent") =>
                /\ sw'[p].pc = "load_done"
                /\ sw'[p].resp \in {store[sw[p].newKey], << >>}
                /\ streamError' = streamError
          /\ (sw[p].pc = "load_done" /\ sw'[p].pc # "load_done") =>
                (frames' = sw[p].resp /\ streamError' = streamError)
          /\ (ev'.op = "switchDone" /\ ev'.id = p /\ ev'.arg = NoKey
                /\ sw'[p] # sw[p]) =>
                (frames' = << >> /\ sw[p].pc # "load_done")]_vars

\* C22 witness: the load of a key that has a persisted timeline has failed
\* and the switch has completed with an empty timeline.
C22_Witness ==
    /\ ev.op = "switchDone"
    /\ ev.arg = "A"
    /\ currentImageKey = "A"
    /\ Len(store["A"]) = 2
    /\ frames = << >>
    /\ streamError = ErrNone

\* ---- C23 ----
\* chart_points as the specification words it: the similarity is read from
\* metrics.cosine.
SpecifiedPoint(f) ==
    [x |-> f.globalT,
     residual |-> IF IsFiniteNumber(f.metrics.cosine)
                  THEN Num(One - f.metrics.cosine.v) ELSE Null,
     beta |-> IF IsFiniteNumber(f.betas) THEN f.betas ELSE Null]

\* Scenario E: [{globalT:0, metrics:{cosine:1}}, {globalT:1, betas:0.002}]
ScenarioE ==
    << [globalT |-> 0, image |-> 1,
        metrics |-> [Cosine |-> Undefined, cosine |-> Num(One)],
        betas |-> Undefined],
       [globalT |-> 1, image |-> 1,
        metrics |-> [Cosine |-> Undefined, cosine |-> Undefined],
        betas |-> Num(2)] >>

\* C23: the chart points of the timeline are, in timeline order, the point
\* {x: globalT, residual: 1 - metrics.cosine or null, beta: betas or null} of
\* every frame for which not both are null; for the frames of Scenario E
\* they are [{x:0, residual:0, beta:null}, {x:1, residual:null, beta:0.002}].
C23_ChartPointsAsSpecified ==
    /\ useChartPoints(frames) =
          SelectSeq([j \in 1 .. Len(frames) |-> SpecifiedPoint(frames[j])],
                    ChartKeep)
    /\ frames = ScenarioE =>
          useChartPoints(frames) =
             << [x |-> 0, residual |-> Num(0), beta |-> Null],
                [x |-> 1, residual |-> Null, beta |-> Num(2)] >>

\* C23 witness: the timeline holds the two frames of Scenario E.
C23_Witness == frames = ScenarioE

\* ---- C24 ----
\* next_offset of a timeline: 0 when it is empty, else the globalT of its
\* last frame plus 1, and then above every globalT of a sorted timeline.
OffsetAsSpecified(arr) ==
    /\ arr = << >> => computeNextOffsetFrom(arr) = 0
    /\ arr # << >> =>
          computeNextOffsetFrom(arr) = arr[Len(arr)].globalT + 1
    /\ Sorted(arr) =>
          \A j \in 1 .. Len(arr) : computeNextOffsetFrom(arr) > arr[j].globalT

\* C24: computeNextOffsetFrom is next_offset on every timeline the program
\* holds in memory or on the server, and the tOffset that switchToImage sets
\* from the restored timeline is this value.
C24_NextOffset ==
    [][/\ OffsetAsSpecified(frames)
       /\ OffsetAsSpecified(frames')
       /\ \A k \in Keys : OffsetAsSpecified(store'[k])
       /\ SwitchCompleted =>
             (tOffsetRef' = IF frames' = << >> THEN 0
                            ELSE frames'[Len(frames')].globalT + 1)]_vars

\* C24 witness: a switch has restored a timeline whose only frame has
\* globalT 1, and tOffset is 2.
C24_Witness ==
    /\ ev.op = "switchDone"
    /\ Len(frames) = 1
    /\ frames[1].globalT = 1
    /\ tOffsetRef = 2

\* ---- C25 ----
\* C25: in the step that invokes switchToImage the current connection, if
\* open, is closed and, if an image is active, the save is sent under the
\* active key with the timeline in memory, the key still unchanged; the
\* key changes only in a step of a switchToImage whose save has been
\* answered (or that had none to send); and a load is sent only in a step
\* after which the key is the one being loaded.
C25_SwitchStepsInOrder ==
    [][/\ \A p \in Socks :
            /\ (sw[p].pc = "idle" /\ sw'[p].pc # "idle") =>
                  /\ wsRef # 0 => ws'[wsRef].readyState # "open"
                  /\ currentImageKey # NoKey =>
                        /\ sw'[p].pc = "save_sent"
                        /\ sw'[p].capKey = currentImageKey
                        /\ sw'[p].capFrames = frames
                        /\ currentImageKey' = currentImageKey
            /\ (sw[p].pc # "load_sent" /\ sw'[p].pc = "load_sent") =>
                  /\ currentImageKey' = sw'[p].newKey
                  /\ sw[p].pc \in {"idle", "save_done"}
       /\ currentImageKey' # currentImageKey =>
            \E p \in Socks :
               /\ sw'[p].pc \in {"load_sent", "done"}
               /\ \/ sw[p].pc = "save_done"
                  \/ sw[p].pc = "idle" /\ currentImageKey = NoKey]_vars

\* C25 witness: a switch from A to B has closed the connection of a run on
\* A that had delivered a frame, has had its save answered, has made B the
\* active key and has sent its load.
C25_Witness ==
    \E p \in Socks, r \in Socks :
        /\ sw[p].pc = "load_sent"
        /\ sw[p].newKey = "B"
        /\ currentImageKey = "B"
        /\ ws[r].key = "A"
        /\ ws[r].delivered
        /\ ws[r].stale
        /\ ws[r].readyState = "closing"

\* ---- C26 ----
\* C26: in the step that completes a switchToImage, the displayed image
\* becomes the image of the last frame of the timeline that is installed,
\* or empty when that timeline is empty.
C26_PreviewRestoredAtSwitch ==
    [][SwitchCompleted =>
          diffusedImage' = (IF frames' # << >>
                            THEN frames'[Len(frames')].image
                            ELSE NoImg)]_vars

\* C26 witness: a run on image A has shown a frame; a switch to an image
\* without timeline has completed and nothing is shown.
C26_Witness ==
    /\ ev.op = "switchDone"
    /\ ev.arg = "B"
    /\ currentImageKey = "B"
    /\ \E r \in Socks : ws[r].key = "A" /\ ws[r].delivered /\ ws[r].follow
    /\ Len(store["A"]) >= 1
    /\ frames = << >>
    /\ diffusedImage = NoImg

\* ---- C27 ----
\* C27: in every reachable state scrubT is null or the globalT of a frame
\* of the timeline in memory.
C27_ScrubTPointsAtFrame == scrubT = NoT \/ FindIndex(frames, scrubT) >= 1

\* C27 witness: the display is pinned to a frame of the timeline and a slow
\* run has reset the timeline.
C27_Witness ==
    /\ ev.op = "slowDiffuse"
    /\ ev.arg = 2
    /\ frames = << >>
    /\ scrubT = 0

\* ---- C28 ----
\* C28: the error text of a transport error changes only in a step in
\* which diffuse() is invoked or a slow run is started.
C28_ErrorTextKeptUntilNextRun ==
    [][(streamError = ErrWs /\ streamError' # ErrWs) =>
          (RunInvoked \/ RunStarted)]_vars

\* C28 witness: a run that had delivered a frame has ended with a
\* transport error and the error text is set.
C28_Witness ==
    /\ ev.op = "onError"
    /\ ws[ev.id].delivered
    /\ streamError = ErrWs
    /\ nSw = 0
    /\ currentImageKey = "A"

\* ---- C29 ----
\* C29: close() is not called twice on a connection: the unmount cleanup
\* does not call close() on a connection that switchToImage or the reset of
\* diffuse() has called close() on already; and a run that has had its
\* terminal callback has no connecting or open connection.
C29_ClosedExactlyOnce ==
    [][/\ (ev'.op = "unmount" /\ wsRef # 0) =>
             ~ (ws[wsRef].readyState = "closing" /\ ~ ws[wsRef].term)
       /\ \A r \in Socks : ws'[r].term => ~ Live(r)']_vars

\* C29 witness: the Dashboard is unmounted while its run is open; the
\* cleanup closes the connection.
C29_Witness ==
    /\ ev.op = "unmount"
    /\ wsRef # 0
    /\ ws[wsRef].readyState = "closing"
    /\ ws[wsRef].delivered
    /\ ~ ws[wsRef].stale
    /\ isStreaming

\* ---- C30 ----
\* C30: the steps of diffuse() in fast mode (the call up to the request, and
\* the return of the request) leave frames, scrubT, tOffsetRef and the
\* persisted timelines unchanged and send no save and no delete; the
\* displayed image changes only at the return of a request that succeeded.
C30_FastLeavesTimeline ==
    [][\A d \in 1 .. MaxCalls :
          (\/ dcall[d].pc # "fast_sent" /\ dcall'[d].pc = "fast_sent"
           \/ dcall[d].pc = "fast_sent" /\ dcall'[d].pc # "fast_sent") =>
             /\ frames' = frames
             /\ scrubT' = scrubT
             /\ tOffsetRef' = tOffsetRef
             /\ store' = store
             /\ net' = net
             /\ sw' = sw
             /\ (diffusedImage' # diffusedImage =>
                    dcall[d].pc = "fast_sent" /\ ev'.op = "fastDone"
                                             /\ ev'.arg = TRUE)]_vars

\* C30 witness: a fast request succeeds while the active image has a
\* timeline; the displayed image is not the image of a frame.
C30_Witness ==
    /\ ev.op = "fastDone"
    /\ ev.arg = TRUE
    /\ Len(frames) >= 1
    /\ \A j \in 1 .. Len(frames) : frames[j].image # diffusedImage

\* ---- C31 ----
ValidSteps(v) == v % One = 0 /\ v >= One /\ v <= 1000 * One

\* C31: the steps value handed to a run, slow (the steps of the connection
\* slowDiffuse makes) or fast (the steps of the request fastDiffuse sends),
\* is a whole number from 1 to 1000 and equals totalSteps.
C31_StepsValidated ==
    [][/\ \A r \in 1 .. MaxCalls :
            (ws[r].readyState = "none" /\ ws'[r].readyState # "none") =>
               /\ ValidSteps(ws'[r].steps)
               /\ ws'[r].steps = totalSteps(diffusion')
       /\ \A d \in 1 .. MaxCalls :
            (dcall[d].pc # "fast_sent" /\ dcall'[d].pc = "fast_sent") =>
               /\ ValidSteps(dcall'[d].steps)
               /\ dcall'[d].steps = totalSteps(diffusion')]_vars

\* C31 witness: a slow run is started after the mobile input has been given
\* 5000.
C31_Witness ==
    /\ ev.op = "slowDiffuse"
    /\ diffusion.steps = Number("5000")
    /\ ws[ev.id].readyState = "connecting"

C33_RunningWhileStreamLive ==
    \A r \in Socks :
        (ws[r].readyState \in {"connecting", "open"} /\ ~ ws[r].term) =>
            isStreaming

\* C33 witness: diffuse() in fast mode has been called during a slow run,
\* and a frame of the slow run is appended afterwards.
C33_Witness ==
    /\ ev.op = "onFrame"
    /\ ev.arg.frame.image # NoImg
    /\ \E d \in 1 .. MaxCalls : dcall[d].pc = "fast_sent"
    /\ ws[ev.id].readyState = "open"
    /\ ~ isStreaming

C35_SaveKeyedByImage ==
    [][/\ \A m \in net' \ net : m.key = currentImageKey
       /\ \A p \in 1 .. MaxCalls :
            (sw[p].pc # "save_sent" /\ sw'[p].pc = "save_sent") =>
               sw'[p].capKey = currentImageKey /\ sw'[p].capFrames = frames]_vars

\* C35 witness: B is active with its restored timeline; the connection of
\* the run on A, made before the switch, has appended its only frame with an
\* image to it, and the whole is sent to be saved under A.
C35_Witness ==
    /\ ev.op = "onFrame"
    /\ ev.arg.idx = 0
    /\ ws[ev.id].key = "A"
    /\ currentImageKey = "B"
    /\ \A p \in 1 .. MaxCalls : sw[p].pc \in {"idle", "done"}
    /\ Len(frames) = 2
    /\ Len(store["B"]) = 1
    /\ frames[1] = store["B"][1]
    /\ [key |-> "A", frames |-> frames] \in net
    /\ ws[ev.id].stale
    /\ \A m \in net : Len(m.frames) = 2

\* ---- C36 ----
\* C36: once the persisted timeline of the active image has been deleted by
\* confirmDelete, no save is sent for that image id, neither awaited nor
\* fire-and-forget; and when confirmDelete of the active image has ended,
\* the active key is null, the timeline is empty and no image is displayed.
C36_ActiveImageDeleted ==
    [][(del.key = del.id /\ del.pc \in {"frames_done", "switching",
                                        "remove_sent", "done"}) =>
          /\ \A m \in net' \ net : m.key # del.id
          /\ \A p \in 1 .. MaxCalls :
                (sw[p].pc # "save_sent" /\ sw'[p].pc = "save_sent") =>
                    sw'[p].capKey # del.id
          /\ (del.pc = "remove_sent" /\ del'.pc = "done") =>
                /\ currentImageKey' = NoKey
                /\ frames' = << >>
                /\ diffusedImage' = NoImg]_vars

\* C36 witness: confirmDelete of the active image A has ended with the
\* remote delete done, and A's timeline is persisted again.
C36_Witness ==
    /\ del.pc = "done"
    /\ del.id = "A"
    /\ del.key = "A"
    /\ uploadedImage = NoKey
    /\ currentImageKey = NoKey
    /\ store["A"] # << >>

\* ---- C37 ----
\* C37: the steps of a confirmDelete of an image that is not the active one
\* leave the active key, the preview and the payload, the timeline, scrubT,
\* the displayed image, the running flag and the connections unchanged.
C37_DeleteOtherKeepsSession ==
    [][(del' # del /\ del'.key # del'.id) =>
          UNCHANGED << session, ws, wsRef >>]_vars

\* C37 witness: B has been deleted on the server while A is active.
C37_Witness ==
    /\ del.pc = "done"
    /\ del.id = "B"
    /\ del.key = "A"
    /\ currentImageKey = "A"
    /\ uploadedImage = NoKey
    /\ uploadedImageDataUrl = "A"

\* ---- C38 ----
\* C38: with no run started, the persisted timeline of an image that has
\* been switched away from is what it was when the image was left, also when
\* the load of the switch to the image had failed.
C38_FailedLoadKeepsHistory ==
    away.key # NoKey => store[away.key] = away.stored

\* C38 witness: the load of the switch to A failed (A was left with an empty
\* timeline in memory and a persisted one on the server), and the switch
\* away from A has completed.
C38_Witness ==
    /\ away.key = "A"
    /\ away.frames = << >>
    /\ away.stored # << >>
    /\ nSw = 2
    /\ currentImageKey # "A"
    /\ \A p \in 1 .. MaxCalls : sw[p].pc \in {"idle", "done"}

\* ---- C39 ----
\* C39: a diffuse() that was suspended in its reset while switchToImage made
\* another image the active one does not, when it resumes, empty the
\* timeline, set the running flag or open a stream.
C39_SuspendedRunDropped ==
    [][\A d \in 1 .. MaxCalls :
          (dcall[d].pc = "del_done" /\ dcall'[d].pc # "del_done"
             /\ dcall[d].key # currentImageKey) =>
               /\ frames' = frames
               /\ isStreaming' = isStreaming
               /\ nSock' = nSock
               /\ \A r \in Socks : ~ (Live(r)' /\ ws'[r].key = dcall[d].key)]_vars

\* C39 witness: the switch to B has completed and restored B's timeline;
\* the diffuse() for A then resumes, empties it and opens a stream for A.
C39_Witness ==
    /\ ev.op = "slowDiffuse"
    /\ ev.arg >= 1
    /\ ws[ev.id].key = "A"
    /\ ws[ev.id].readyState = "connecting"
    /\ currentImageKey = "B"
    /\ \A p \in 1 .. MaxCalls : sw[p].pc \in {"idle", "done"}
    /\ frames = << >>
    /\ store["B"] # << >>
    /\ isStreaming

\* ---- C10 ----
\* C10: at the step at which diffuse() starts its slow run the timeline is
\* empty, the displayed image is cleared, the progress counter is 0,
\* tOffset is 0, and the connection is made with tOffset 0 and has
\* delivered nothing, however many frames the timeline held before.
C10_SlowRunStartsFromReset ==
    [][RunStarted =>
          /\ frames' = << >>
          /\ diffusedImage' = NoImg
          /\ currentStep' = 0
          /\ tOffsetRef' = 0
          /\ wsRef' = nSock'
          /\ ws'[nSock'].readyState = "connecting"
          /\ ws'[nSock'].tOffset = 0
          /\ ~ ws'[nSock'].delivered]_vars

\* C10 witness: a slow run has just been started over a timeline of two
\* frames, with the display pinned to one of them.
C10_Witness ==
    /\ ev.op = "slowDiffuse"
    /\ ev.arg = 2
    /\ scrubT # NoT
    /\ frames = << >>
    /\ diffusedImage = NoImg
    /\ tOffsetRef = 0
    /\ ws[ev.id].readyState = "connecting"

====
